---- MODULE Spec2Model ----
(***************************************************************************)
(* OTP microservice (2FAuto): startup configuration, the request           *)
(* authenticator (API key, HMAC-signed timestamp) and the TOTP engine.     *)
(*                                                                         *)
(* A Python str is a sequence of code points (naturals); None is the       *)
(* one-element sequence <<-1>>, which is no str.  The clock is the integer *)
(* int(time.time()).                                                       *)
(***************************************************************************)
EXTENDS Integers, Sequences, FiniteSets, TLC

None == <<-1>>

\* ------------------------------------------------------------------ bounds

\* Number of request slots handled concurrently.
NumReqs == 2
\* Seconds the clock may advance after the first instant of a run.
ClockSpan == 4
\* Largest time-step whose passcode a client may submit.
MaxStep == 4
\* Accepted presentations of one signed envelope that are counted.
MaxReplays == 2
\* Seconds the clock may advance in a run with several requests in flight.
ConcSpan == 2

\* ------------------------------------------------------- program constants

\* app/middleware/auth.py: SIGNATURE_MAX_AGE_SECONDS = 30
SIGNATURE_MAX_AGE_SECONDS == 30
\* app/core/totp.py: the 30 of "30 - (now % 30)", pyotp's default interval.
INTERVAL == 30

\* First instant of a run: two seconds before a time-step boundary.
StartClock == 2 * INTERVAL - 2
MaxClock == StartClock + ClockSpan
ConcMaxClock == StartClock + ConcSpan
\* Horizon of a replay run: from 31 s before the envelope's timestamp to
\* 31 s after it.
ReplayMaxClock == MaxClock + 2 * SIGNATURE_MAX_AGE_SECONDS

ReqIds == 1..NumReqs

\* ------------------------------------------------------------ Python str

Abs(n) == IF n < 0 THEN -n ELSE n

IsDigit(c) == c \in 48..57

\* str.isascii(): every code point below 128.
IsAscii(s) == \A k \in 1..Len(s) : s[k] < 128

\* Code points int() strips as whitespace: tab, space, NEL, NBSP.
Whitespace == {9, 32, 133, 160}

RECURSIVE LStrip(_)
LStrip(s) ==
    IF Len(s) > 0 /\ s[1] \in Whitespace THEN LStrip(Tail(s)) ELSE s

RECURSIVE RStrip(_)
RStrip(s) ==
    IF Len(s) > 0 /\ s[Len(s)] \in Whitespace
    THEN RStrip(SubSeq(s, 1, Len(s) - 1))
    ELSE s

\* The digits of an int() literal: digits, single underscores between them.
DigitsOk(d) ==
    /\ Len(d) > 0
    /\ IsDigit(d[1])
    /\ IsDigit(d[Len(d)])
    /\ \A k \in 1..Len(d) : IsDigit(d[k]) \/ d[k] = 95
    /\ \A k \in 1..(Len(d) - 1) : ~(d[k] = 95 /\ d[k + 1] = 95)

RECURSIVE DigitsValue(_, _)
DigitsValue(d, acc) ==
    IF Len(d) = 0 THEN acc
    ELSE IF d[1] = 95 THEN DigitsValue(Tail(d), acc)
    ELSE DigitsValue(Tail(d), 10 * acc + (d[1] - 48))

\* int(x_timestamp): [ok |-> FALSE] stands for ValueError.
ParseInt(s) ==
    LET t == RStrip(LStrip(s))
        signed == Len(t) > 0 /\ t[1] \in {43, 45}
        d == IF signed THEN Tail(t) ELSE t
    IN  IF DigitsOk(d)
        THEN [ok |-> TRUE,
              val |-> IF signed /\ t[1] = 45
                      THEN -DigitsValue(d, 0) ELSE DigitsValue(d, 0)]
        ELSE [ok |-> FALSE, val |-> 0]

\* str(n) for n >= 0, the client's formatting of a unix time.
RECURSIVE Str(_)
Str(n) == IF n < 10 THEN <<48 + n>> ELSE Str(n \div 10) \o <<48 + (n % 10)>>

\* str.encode(): UTF-8, one byte below 128, two bytes below 2048.
RECURSIVE Utf8(_)
Utf8(s) ==
    IF Len(s) = 0 THEN <<>>
    ELSE (IF s[1] < 128 THEN <<s[1]>>
          ELSE <<192 + (s[1] \div 64), 128 + (s[1] % 64)>>) \o Utf8(Tail(s))

HexChar(n) == IF n < 10 THEN 48 + n ELSE 87 + n

RECURSIVE Hex(_)
Hex(b) ==
    IF Len(b) = 0 THEN <<>>
    ELSE <<HexChar(b[1] \div 16), HexChar(b[1] % 16)>> \o Hex(Tail(b))

\* hmac.new(key.encode(), msg.encode(), hashlib.sha256).hexdigest().  SHA-256
\* is not computed: the digest is the lowercase hex of the key's bytes, a byte
\* no UTF-8 text holds, and the message's bytes.
\* Like the real digest it is ASCII hex and (collision resistance) differs
\* for different (key, msg).
hexdigest(key, msg) == Hex(Utf8(key) \o <<255>> \o Utf8(msg))

\* hmac.compare_digest(a, b) on two str: TypeError when either holds a
\* non-ASCII character, else equality.
compare_digest_raises(a, b) == ~IsAscii(a) \/ ~IsAscii(b)
compare_digest(a, b) == a = b

\* ---------------------------------------------------------------- pyotp

\* base32 alphabet value of a character (casefold=True): A-Z, a-z, 2-7.
IsB32Char(c) == c \in 65..90 \/ c \in 97..122 \/ c \in 50..55
B32Val(c) ==
    IF c \in 65..90 THEN c - 65
    ELSE IF c \in 97..122 THEN c - 97
    ELSE c - 24

RECURSIVE RStripPad(_)
RStripPad(s) ==
    IF Len(s) > 0 /\ s[Len(s)] = 61
    THEN RStripPad(SubSeq(s, 1, Len(s) - 1))
    ELSE s

\* pyotp's byte_secret: pad the secret with '=' to a multiple of 8, then
\* base64.b32decode(secret, casefold=True).
PaddedSecret(secret) ==
    IF Len(secret) % 8 = 0 THEN secret
    ELSE secret \o [k \in 1..(8 - (Len(secret) % 8)) |-> 61]

\* Whether byte_secret raises (binascii.Error, or ValueError on non-ASCII).
byte_secret_raises(secret) ==
    LET p == PaddedSecret(secret)
        data == RStripPad(p)
        padchars == Len(p) - Len(data)
    IN  \/ ~IsAscii(secret)
        \/ \E k \in 1..Len(data) : ~IsB32Char(data[k])
        \/ padchars \notin {0, 1, 3, 4, 6}

\* The decoded key, as the 5-bit values of the secret's characters.
byte_secret(secret) ==
    LET data == RStripPad(PaddedSecret(secret))
    IN  [k \in 1..Len(data) |-> B32Val(data[k])]

RECURSIVE KeySum(_)
KeySum(b) == IF Len(b) = 0 THEN 0 ELSE (b[1] + 1) * Len(b) + KeySum(Tail(b))

RECURSIVE Pad(_, _)
Pad(s, width) == IF Len(s) >= width THEN s ELSE Pad(<<48>> \o s, width)

\* OTP.generate_otp(counter): the HMAC-SHA1 of the counter, truncated modulo
\* 10^6 and zero-padded to 6 digits.  The HMAC is not computed: the value is
\* a function of (key, counter) that gives distinct time-steps distinct codes.
generate_otp(secret, counter) ==
    Pad(Str((7919 * KeySum(byte_secret(secret)) + counter) % 1000000), 6)

\* TOTP.timecode(for_time): the time-step of an instant.
timecode(t) == t \div INTERVAL

\* Mutant: verify without valid_window, the current step only.
verify_NoWindow(secret, otp, t) ==
    otp = generate_otp(secret, t \div INTERVAL)

\* TOTP.verify(otp, valid_window=1) at instant t: the candidate equals the
\* code of one of the steps timecode(t)-1, timecode(t), timecode(t)+1.
verify(secret, otp, t) ==
    \E d \in {-1, 0, 1} : otp = generate_otp(secret, timecode(t) + d)

\* ---------------------------------------------------------------- state

VARIABLES
    environ,    \* os.environ: API_KEY, OTP_SECRET, PORT (None when unset)
    proc,       \* "init" (importing app.core.config), "serving", "exited"
    exit_code,  \* the process's exit status once exited, else 0
    settings,   \* the module-level settings object (None fields until bound)
    clock,      \* int(time.time())
    req,        \* per slot: the request in flight, its position and locals
    envelope,   \* the signed envelope a client replays (ts, sig), or None
    replays,    \* how often the envelope has been accepted (capped)
    lapsed      \* the envelope has been refused as expired after its window

vars == <<environ, proc, exit_code, settings, clock, req,
          envelope, replays, lapsed>>

NoBody == [pending |-> TRUE]

IdleReq ==
    [route |-> "none", x_api_key |-> None, x_timestamp |-> None,
     x_signature |-> None, otp |-> None, pc |-> "idle", api_key |-> None,
     path |-> <<>>, reads |-> <<>>, code |-> None, valid |-> FALSE,
     status |-> 0, body |-> NoBody]

Unbound == [API_KEY |-> None, OTP_SECRET |-> None]

\* os.getenv(name, default)
getenv(env, name, default) == IF env[name] = None THEN default ELSE env[name]

\* ------------------------------------------------- app/core/config.py

\* Settings.__init__, lines 17-18: the two secrets as read from the
\* environment.
SettingsOf(env) ==
    [API_KEY |-> getenv(env, "API_KEY", <<>>),
     OTP_SECRET |-> getenv(env, "OTP_SECRET", <<>>)]

\* Line 20: int(os.getenv("PORT", "8000")) raises ValueError.
PortRaises(env) == ~ParseInt(getenv(env, "PORT", Str(8000))).ok

\* Settings._validate: the names appended to `missing`.
missing(s) ==
    (IF s.API_KEY = <<>> THEN {"API_KEY"} ELSE {})
        \cup (IF s.OTP_SECRET = <<>> THEN {"OTP_SECRET"} ELSE {})

\* Mutant: _validate without the trial totp.now().
_validate_NoDecode(s) == missing(s) # {}

\* Settings._validate: whether it calls sys.exit(1).
_validate(s) ==
    IF missing(s) # {} THEN TRUE ELSE byte_secret_raises(s.OTP_SECRET)

\* settings = Settings(): the import of app.core.config.  An uncaught
\* ValueError from the PORT conversion and sys.exit(1) both end the process
\* with status 1 before the module-level name is bound.
Settings ==
    /\ proc = "init"
    /\ IF PortRaises(environ) \/ _validate(SettingsOf(environ))
       THEN /\ proc' = "exited"
            /\ exit_code' = 1
            /\ settings' = settings
       ELSE /\ proc' = "serving"
            /\ exit_code' = exit_code
            /\ settings' = SettingsOf(environ)
    /\ UNCHANGED <<environ, clock, req, envelope, replays, lapsed>>

\* The system clock advances by one second, up to the horizon `max`.
Tick(max) ==
    /\ clock < max
    /\ clock' = clock + 1
    /\ UNCHANGED <<environ, proc, exit_code, settings, req,
                   envelope, replays, lapsed>>

\* --------------------------------------------- app/middleware/auth.py

\* The result of one dependency: status 0 when it returns, else the status
\* of the HTTPException it raises; 500 when it raises anything else, which
\* main.py's unhandled_exception_handler turns into a 500 response.
Passes == [status |-> 0, detail |-> "pass"]
HTTPException(code, text) == [status |-> code, detail |-> text]
unhandled_exception_handler == [status |-> 500, detail |-> "Internal server error"]

\* require_api_key(x_api_key)
require_api_key(x_api_key, API_KEY) ==
    IF x_api_key = None
    THEN HTTPException(401, "X-API-Key header is required")
    ELSE IF compare_digest_raises(x_api_key, API_KEY)
    THEN unhandled_exception_handler
    ELSE IF ~compare_digest(x_api_key, API_KEY)
    THEN HTTPException(403, "Invalid API key")
    ELSE Passes

\* Whether require_hmac_signature reaches line 50 and reads the clock.
require_hmac_signature_reads_clock(x_timestamp, x_signature) ==
    /\ x_timestamp # None
    /\ x_signature # None
    /\ ParseInt(x_timestamp).ok

\* Mutant: the age without abs(), so that only old timestamps expire.
age_NoAbs(now, request_time) == now - request_time

\* abs(int(time.time()) - request_time), line 50.
age(now, request_time) == Abs(now - request_time)

\* Mutant: a window that excludes the age of exactly 30 s (>= for >).
require_hmac_signature_AtLeast(api_key, x_timestamp, x_signature, now) ==
    IF x_timestamp = None
    THEN HTTPException(401, "X-Timestamp header is required")
    ELSE IF x_signature = None
    THEN HTTPException(401, "X-Signature header is required")
    ELSE IF ~ParseInt(x_timestamp).ok
    THEN HTTPException(400, "X-Timestamp must be a unix integer")
    ELSE IF Abs(now - ParseInt(x_timestamp).val) >= SIGNATURE_MAX_AGE_SECONDS
    THEN HTTPException(401, "Request timestamp is expired")
    ELSE IF compare_digest_raises(x_signature, hexdigest(api_key, x_timestamp))
    THEN unhandled_exception_handler
    ELSE IF ~compare_digest(x_signature, hexdigest(api_key, x_timestamp))
    THEN HTTPException(403, "Invalid request signature")
    ELSE Passes

\* require_hmac_signature(api_key, x_timestamp, x_signature), the clock
\* reading `now` at line 50.
require_hmac_signature(api_key, x_timestamp, x_signature, now) ==
    IF x_timestamp = None
    THEN HTTPException(401, "X-Timestamp header is required")
    ELSE IF x_signature = None
    THEN HTTPException(401, "X-Signature header is required")
    ELSE IF ~ParseInt(x_timestamp).ok
    THEN HTTPException(400, "X-Timestamp must be a unix integer")
    ELSE IF age(now, ParseInt(x_timestamp).val) > SIGNATURE_MAX_AGE_SECONDS
    THEN HTTPException(401, "Request timestamp is expired")
    ELSE IF compare_digest_raises(x_signature, hexdigest(api_key, x_timestamp))
    THEN unhandled_exception_handler
    ELSE IF ~compare_digest(x_signature, hexdigest(api_key, x_timestamp))
    THEN HTTPException(403, "Invalid request signature")
    ELSE Passes

\* The JSON body of an error response: FastAPI's {"detail": ...} for an
\* HTTPException, main.py's {"error": ...} for anything else.
ErrorBody(o) ==
    IF o.status = 500 THEN [error |-> o.detail] ELSE [detail |-> o.detail]

Verdict(o) ==
    IF o.status = 0 THEN "pass" ELSE IF o.status = 500 THEN "fault" ELSE "reject"

\* ------------------------------------------------- app/routes/otp.py

\* A request arrives on slot i: one of the requests in R, its headers and
\* body as sent.  /health has no dependency; every other route starts with
\* require_api_key (directly, or as require_hmac_signature's dependency).
Arrive(i, R) ==
    /\ proc = "serving"
    /\ req[i].pc = "idle"
    /\ \E r \in R :
        req' = [req EXCEPT ![i] =
                   [IdleReq EXCEPT !.route = r.route,
                                   !.x_api_key = r.x_api_key,
                                   !.x_timestamp = r.x_timestamp,
                                   !.x_signature = r.x_signature,
                                   !.otp = r.otp,
                                   !.pc = IF r.route = "health"
                                          THEN "handler"
                                          ELSE "require_api_key"]]
    /\ UNCHANGED <<environ, proc, exit_code, settings, clock,
                   envelope, replays, lapsed>>

\* The response of a dependency that raised.
Rejected(r, step, o) ==
    [r EXCEPT !.pc = "responded",
              !.path = Append(r.path, <<step, Verdict(o)>>),
              !.status = o.status,
              !.body = ErrorBody(o)]

\* Mutant: a failed API key check is recorded but the request goes on.
Depends_require_api_key_FallsThrough(i) ==
    /\ req[i].pc = "require_api_key"
    /\ LET r == req[i]
           o == require_api_key(r.x_api_key, settings.API_KEY)
       IN  req' = [req EXCEPT ![i] =
                [r EXCEPT !.api_key = r.x_api_key,
                          !.path = Append(r.path,
                                          <<"require_api_key", Verdict(o)>>),
                          !.pc = IF r.route = "secure"
                                 THEN "require_hmac_signature"
                                 ELSE "handler"]]
    /\ UNCHANGED <<environ, proc, exit_code, settings, clock,
                   envelope, replays, lapsed>>

\* Mutant: the check remembers the last key presented in the shared
\* settings object.
Depends_require_api_key_CachesKey(i) ==
    /\ req[i].pc = "require_api_key"
    /\ LET r == req[i]
           o == require_api_key(r.x_api_key, settings.API_KEY)
       IN  /\ req' = [req EXCEPT ![i] =
                IF o.status # 0
                THEN Rejected(r, "require_api_key", o)
                ELSE [r EXCEPT !.api_key = r.x_api_key,
                               !.path = Append(r.path,
                                               <<"require_api_key", "pass">>),
                               !.pc = IF r.route = "secure"
                                      THEN "require_hmac_signature"
                                      ELSE "handler"]]
           /\ settings' = IF r.x_api_key = None THEN settings
                          ELSE [settings EXCEPT !.API_KEY = r.x_api_key]
    /\ UNCHANGED <<environ, proc, exit_code, clock,
                   envelope, replays, lapsed>>

\* Depends(require_api_key): /otp and /otp/verify then run their handler,
\* /otp/secure goes on to require_hmac_signature with the returned key.
Depends_require_api_key(i) ==
    /\ req[i].pc = "require_api_key"
    /\ LET r == req[i]
           o == require_api_key(r.x_api_key, settings.API_KEY)
       IN  req' = [req EXCEPT ![i] =
                IF o.status # 0
                THEN Rejected(r, "require_api_key", o)
                ELSE [r EXCEPT !.api_key = r.x_api_key,
                               !.path = Append(r.path,
                                               <<"require_api_key", "pass">>),
                               !.pc = IF r.route = "secure"
                                      THEN "require_hmac_signature"
                                      ELSE "handler"]]
    /\ UNCHANGED <<environ, proc, exit_code, settings, clock,
                   envelope, replays, lapsed>>

\* Whether request r carries the replayed envelope.
CarriesEnvelope(r) ==
    /\ envelope # None
    /\ r.x_timestamp = envelope[1]
    /\ r.x_signature = envelope[2]

\* Depends(require_hmac_signature), run with require_api_key's result.
Depends_require_hmac_signature(i) ==
    /\ req[i].pc = "require_hmac_signature"
    /\ LET r == req[i]
           o == require_hmac_signature(r.api_key, r.x_timestamp, r.x_signature, clock)
           seen == IF require_hmac_signature_reads_clock(r.x_timestamp, r.x_signature)
                   THEN Append(r.reads, clock) ELSE r.reads
       IN  /\ req' = [req EXCEPT ![i] =
                IF o.status # 0
                THEN [Rejected(r, "require_hmac_signature", o)
                         EXCEPT !.reads = seen]
                ELSE [r EXCEPT !.reads = seen,
                               !.path = Append(r.path,
                                    <<"require_hmac_signature", "pass">>),
                               !.pc = "handler"]]
           /\ replays' = IF CarriesEnvelope(r) /\ o.status = 0
                            /\ replays < MaxReplays
                         THEN replays + 1 ELSE replays
           /\ lapsed' = IF CarriesEnvelope(r)
                           /\ o = HTTPException(401, "Request timestamp is expired")
                           /\ clock > ParseInt(r.x_timestamp).val
                        THEN TRUE ELSE lapsed
    /\ UNCHANGED <<environ, proc, exit_code, settings, clock, envelope>>

\* --------------------------------------------------- app/core/totp.py

\* get_otp's valid_for_seconds, line 17.
valid_for_seconds(now) == INTERVAL - (now % INTERVAL)

\* health_check: {"status": "ok", "timestamp": int(time.time())}
health_check(i) ==
    /\ req[i].pc = "handler"
    /\ req[i].route = "health"
    /\ req' = [req EXCEPT ![i] =
                  [@ EXCEPT !.pc = "responded",
                            !.path = Append(@, <<"health_check", "pass">>),
                            !.reads = Append(@, clock),
                            !.status = 200,
                            !.body = [status |-> "ok", timestamp |-> clock]]]
    /\ UNCHANGED <<environ, proc, exit_code, settings, clock,
                   envelope, replays, lapsed>>

\* get_otp, lines 13-14: code = _totp().now(), pyotp's own clock reading.
get_otp_code(i) ==
    /\ req[i].pc = "handler"
    /\ req[i].route \in {"otp", "secure"}
    /\ req' = [req EXCEPT ![i] =
                  [@ EXCEPT !.pc = "get_otp_time",
                            !.path = Append(@, <<"get_otp", "pass">>),
                            !.reads = Append(@, clock),
                            !.code = generate_otp(settings.OTP_SECRET,
                                                 timecode(clock))]]
    /\ UNCHANGED <<environ, proc, exit_code, settings, clock,
                   envelope, replays, lapsed>>

\* get_otp, lines 15-22: now = int(time.time()), a second clock reading, and
\* the returned dict.
get_otp_return(i) ==
    /\ req[i].pc = "get_otp_time"
    /\ req' = [req EXCEPT ![i] =
                  [@ EXCEPT !.pc = "responded",
                            !.reads = Append(@, clock),
                            !.status = 200,
                            !.body = [otp |-> req[i].code,
                                      valid_for_seconds |->
                                          valid_for_seconds(clock),
                                      timestamp |-> clock]]]
    /\ UNCHANGED <<environ, proc, exit_code, settings, clock,
                   envelope, replays, lapsed>>

\* verify_otp(body.otp): _totp().verify(code, valid_window=1), which reads
\* the clock itself.
verify_otp(i) ==
    /\ req[i].pc = "handler"
    /\ req[i].route = "verify"
    /\ req' = [req EXCEPT ![i] =
                  [@ EXCEPT !.pc = "verify_time",
                            !.path = Append(@, <<"verify_otp", "pass">>),
                            !.reads = Append(@, clock),
                            !.valid = verify(settings.OTP_SECRET,
                                                 req[i].otp, clock)]]
    /\ UNCHANGED <<environ, proc, exit_code, settings, clock,
                   envelope, replays, lapsed>>

\* routes/otp.py line 41: {"valid": valid, "timestamp": int(time.time())}
verify_otp_return(i) ==
    /\ req[i].pc = "verify_time"
    /\ req' = [req EXCEPT ![i] =
                  [@ EXCEPT !.pc = "responded",
                            !.reads = Append(@, clock),
                            !.status = 200,
                            !.body = [valid |-> req[i].valid,
                                      timestamp |-> clock]]]
    /\ UNCHANGED <<environ, proc, exit_code, settings, clock,
                   envelope, replays, lapsed>>

\* The response has been sent (log_requests returns it); nothing of the
\* request is kept and the slot takes the next request.
Retire(i) ==
    /\ req[i].pc = "responded"
    /\ req' = [req EXCEPT ![i] = IdleReq]
    /\ UNCHANGED <<environ, proc, exit_code, settings, clock,
                   envelope, replays, lapsed>>

\* ---------------------------------------------------------------- inputs

\* "k1", "k2", "clé" (an API key with a non-ASCII character)
K1 == <<107, 49>>
K2 == <<107, 50>>
KAccent == <<99, 108, 233>>
\* "é": a header value with a non-ASCII character (Starlette decodes
\* header bytes as latin-1).
EAcute == <<233>>

\* "AB", "ab", "AB======", "JBSWY3DP": secrets pyotp decodes.
\* "A", "ABC": wrong length for base32; "A1": '1' is no base32 digit;
\* "A B": a space; "é": not ASCII.
GoodSecrets == {<<65, 66>>, <<97, 98>>, <<65, 66, 61, 61, 61, 61, 61, 61>>,
                <<74, 66, 83, 87, 89, 51, 68, 80>>}
BadSecrets == {<<65>>, <<65, 66, 67>>, <<65, 49>>, <<65, 32, 66>>, EAcute}

Envs(Keys, Secrets, Ports) ==
    {[API_KEY |-> k, OTP_SECRET |-> s, PORT |-> p] :
        k \in Keys, s \in Secrets, p \in Ports}

\* Every environment: each variable unset, empty, valid or invalid.
AllEnvs ==
    Envs({None, <<>>, K1, KAccent},
         {None, <<>>} \cup GoodSecrets \cup BadSecrets,
         {None, Str(8000), <<56, 48, 97>>})

\* A valid environment: API_KEY = "k1", PORT unset.
GoodEnvs(Secrets) == Envs({K1}, Secrets, {None})

\* The spellings of the integer n that int() accepts: "n", "0n", "+n",
\* " n", "n " and "d_d" for a two-digit n.
Spellings(n) ==
    {Str(n), <<48>> \o Str(n), <<43>> \o Str(n), <<160>> \o Str(n),
     Str(n) \o <<32>>}
        \cup (IF Len(Str(n)) = 2
              THEN {<<Str(n)[1], 95, Str(n)[2]>>} ELSE {})

\* Timestamps that are no integer: "", "x", "5x", "--5", "5__8", "_5".
NotIntegers ==
    {<<>>, <<120>>, <<53, 120>>, <<45, 45, 53>>, <<53, 95, 95, 56>>,
     <<95, 53>>}

\* Signatures a client may send with timestamp string t: none, "", a
\* non-ASCII string, the digest of t under the configured key, the digest of
\* every other spelling of the same integer, the digest of t under another
\* key, and the right digest in upper-case hex.
Upper(g) == [k \in 1..Len(g) |-> IF g[k] \in 97..102 THEN g[k] - 32 ELSE g[k]]

Signatures(t) ==
    {None, <<>>, EAcute}
        \cup (IF t = None THEN {hexdigest(settings.API_KEY, Str(StartClock))}
              ELSE {hexdigest(settings.API_KEY, t), hexdigest(K2, t),
                    Upper(hexdigest(settings.API_KEY, t))}
                   \cup (IF ParseInt(t).ok /\ ParseInt(t).val >= 0
                         THEN {hexdigest(settings.API_KEY, u) :
                                  u \in Spellings(ParseInt(t).val)}
                         ELSE {}))

Request(route, k, t, g, otp) ==
    [route |-> route, x_api_key |-> k, x_timestamp |-> t,
     x_signature |-> g, otp |-> otp]

SecureRequests(Keys, Stamps) ==
    UNION {{Request("secure", k, t, g, None) : k \in Keys,
                                               g \in Signatures(t)} :
           t \in Stamps}

PlainRequests(Routes, Keys, Otps) ==
    {Request(route, k, None, None, IF route = "verify" THEN c ELSE None) :
        route \in Routes, k \in Keys, c \in Otps}

\* Passcodes a client may submit: the code of each time-step up to MaxStep,
\* the code of another secret, and strings that are no 6-digit code.
Candidates ==
    {generate_otp(settings.OTP_SECRET, T) : T \in 0..MaxStep}
        \cup {generate_otp(<<77, 77>>, 1), <<>>, <<49, 50, 51, 52, 53>>}

\* Requests to the authenticator: every key, every timestamp within 32 s of
\* the run, every spelling of the first instant, the non-integers.
AuthRequests ==
    SecureRequests({None, <<>>, K1, K2, EAcute},
                   {None} \cup NotIntegers \cup Spellings(StartClock)
                       \cup {<<45>> \o Str(StartClock)}
                       \cup {Str(n) : n \in (StartClock
                                               - SIGNATURE_MAX_AGE_SECONDS - 2)
                                            ..(MaxClock
                                               + SIGNATURE_MAX_AGE_SECONDS + 2)})
        \cup PlainRequests({"otp"}, {None, <<>>, K1, K2, EAcute}, {None})

\* Requests to the TOTP engine.
TotpRequests ==
    PlainRequests({"otp", "verify"}, {K1, K2}, Candidates)

\* A small mix of all four routes, for runs with several requests in flight.
\* With timestamp StartClock - 29 the signature expires while the run lasts.
MixedStamps == {Str(StartClock + 1 - SIGNATURE_MAX_AGE_SECONDS)}

MixedRequestsFor(cfg, Keys) ==
    PlainRequests({"health", "otp", "verify"}, Keys,
                  {generate_otp(cfg.OTP_SECRET, 0)})
        \cup {Request("secure", k, t, g, None) :
                k \in Keys, t \in MixedStamps,
                g \in {<<>>, hexdigest(cfg.API_KEY, Str(StartClock + 1
                                             - SIGNATURE_MAX_AGE_SECONDS))}}

MixedRequests(Keys) == MixedRequestsFor(settings, Keys)

\* The requests of a run with several in flight, from a client that knows
\* the configuration API_KEY = "k1", OTP_SECRET = "AB": /otp with the right
\* and a wrong key, /otp/verify and /otp/secure with the right key.
ConcConfig == [API_KEY |-> K1, OTP_SECRET |-> <<65, 66>>]

ConcRequests ==
    PlainRequests({"otp"}, {K1, K2}, {None})
        \cup {r \in MixedRequestsFor(ConcConfig, {K1}) :
                 r.route \in {"verify", "secure"}}

\* The envelope of a replay run: timestamp 31 s after the first instant,
\* signed with the configured key.
ReplayStamp == StartClock + SIGNATURE_MAX_AGE_SECONDS + 1
ReplayEnvelope == <<Str(ReplayStamp), hexdigest(K1, Str(ReplayStamp))>>

ReplayRequests ==
    {Request("secure", K1, envelope[1], envelope[2], None)}

\* ---------------------------------------------------------- specifications

InitWith(E, envelopes) ==
    /\ environ \in E
    /\ proc = "init"
    /\ exit_code = 0
    /\ settings = Unbound
    /\ clock = StartClock
    /\ req = [i \in ReqIds |-> IdleReq]
    /\ envelope \in envelopes
    /\ replays = 0
    /\ lapsed = FALSE

\* The service from its start: every environment, then requests of all four
\* routes, one at a time.
Init == InitWith(AllEnvs, {None})

Next ==
    \/ Settings
    \/ Tick(MaxClock)
    \/ Arrive(1, MixedRequests({None, K1, K2, EAcute}))
    \/ \E i \in ReqIds : Depends_require_api_key(i)
    \/ \E i \in ReqIds : Depends_require_hmac_signature(i)
    \/ \E i \in ReqIds : health_check(i)
    \/ \E i \in ReqIds : get_otp_code(i)
    \/ \E i \in ReqIds : get_otp_return(i)
    \/ \E i \in ReqIds : verify_otp(i)
    \/ \E i \in ReqIds : verify_otp_return(i)
    \/ \E i \in ReqIds : Retire(i)

Spec == Init /\ [][Next]_vars

\* The authenticator: a valid configuration, one request at a time with any
\* headers.
InitAuth == InitWith(GoodEnvs({<<65, 66>>}), {None})

NextAuth ==
    \/ Settings
    \/ Tick(MaxClock)
    \/ Arrive(1, AuthRequests)
    \/ \E i \in ReqIds : Depends_require_api_key(i)
    \/ \E i \in ReqIds : Depends_require_hmac_signature(i)
    \/ \E i \in ReqIds : get_otp_code(i)
    \/ \E i \in ReqIds : get_otp_return(i)
    \/ \E i \in ReqIds : Retire(i)

SpecAuth == InitAuth /\ [][NextAuth]_vars

\* The TOTP engine: valid configurations, one request at a time.
InitTotp == InitWith(GoodEnvs(GoodSecrets), {None})

NextTotp ==
    \/ Settings
    \/ Tick(MaxClock)
    \/ Arrive(1, TotpRequests)
    \/ \E i \in ReqIds : Depends_require_api_key(i)
    \/ \E i \in ReqIds : get_otp_code(i)
    \/ \E i \in ReqIds : get_otp_return(i)
    \/ \E i \in ReqIds : verify_otp(i)
    \/ \E i \in ReqIds : verify_otp_return(i)
    \/ \E i \in ReqIds : Retire(i)

SpecTotp == InitTotp /\ [][NextTotp]_vars

\* Concurrency: a valid configuration, NumReqs requests in flight, their
\* steps interleaved in any order.
InitConc == InitWith(GoodEnvs({ConcConfig.OTP_SECRET}), {None})

NextConc ==
    \/ Settings
    \/ Tick(ConcMaxClock)
    \/ \E i \in ReqIds : Arrive(i, ConcRequests)
    \/ \E i \in ReqIds : Depends_require_api_key(i)
    \/ \E i \in ReqIds : Depends_require_hmac_signature(i)
    \/ \E i \in ReqIds : get_otp_code(i)
    \/ \E i \in ReqIds : get_otp_return(i)
    \/ \E i \in ReqIds : verify_otp(i)
    \/ \E i \in ReqIds : verify_otp_return(i)
    \/ \E i \in ReqIds : Retire(i)

SpecConc == InitConc /\ [][NextConc]_vars

\* Replay: one signed envelope, presented again and again while the clock
\* runs from 31 s before its timestamp to beyond 31 s after it.
InitReplay == InitWith(GoodEnvs({<<65, 66>>}), {ReplayEnvelope})

NextReplay ==
    \/ Settings
    \/ Tick(ReplayMaxClock)
    \/ Arrive(1, ReplayRequests)
    \/ \E i \in ReqIds : Depends_require_api_key(i)
    \/ \E i \in ReqIds : Depends_require_hmac_signature(i)
    \/ \E i \in ReqIds : get_otp_code(i)
    \/ \E i \in ReqIds : get_otp_return(i)
    \/ \E i \in ReqIds : Retire(i)

SpecReplay == InitReplay /\ [][NextReplay]_vars

\* ------------------------------------------------------------ properties

\* Whether the step named `step` has run for request r, and its verdict
\* ("pass", "reject" or "fault").
Ran(r, step) == \E k \in 1..Len(r.path) : r.path[k][1] = step
VerdictOf(r, step) ==
    IF Ran(r, step)
    THEN (CHOOSE e \in {r.path[k] : k \in 1..Len(r.path)} : e[1] = step)[2]
    ELSE "none"

\* A /otp/secure request whose signature check has run with both headers
\* present and an integer timestamp: its first clock reading is line 50's.
SignatureTimed(r) ==
    /\ r.route = "secure"
    /\ Ran(r, "require_hmac_signature")
    /\ r.x_timestamp # None
    /\ r.x_signature # None
    /\ ParseInt(r.x_timestamp).ok

Expired == [detail |-> "Request timestamp is expired"]

\* C1: verify_otp run at instant t' on the code of time-step T answers true
\* iff floor(t'/30) is T-1, T or T+1 (so false at T-2 and T+2), and the code
\* get_otp computes at instant t is the code of floor(t/30), which verify
\* accepts at that instant.
C1_ToleranceOneStep ==
    \A i \in ReqIds :
        LET r == req[i] IN
        /\ (r.route = "verify" /\ Ran(r, "verify_otp")) =>
              \A T \in 0..MaxStep :
                  r.otp = generate_otp(settings.OTP_SECRET, T) =>
                      (r.valid <=> (r.reads[1] \div 30) \in {T - 1, T, T + 1})
        /\ (r.route = "otp" /\ Ran(r, "get_otp")) =>
              /\ r.code = generate_otp(settings.OTP_SECRET, r.reads[1] \div 30)
              /\ verify(settings.OTP_SECRET, r.code, r.reads[1])

\* C1 witness: the code of step T = 2 was verified at an instant of step
\* T - 1 = 1 and accepted.
C1_Witness ==
    \E i \in ReqIds :
        /\ req[i].pc = "responded"
        /\ req[i].route = "verify"
        /\ req[i].status = 200
        /\ req[i].otp = generate_otp(settings.OTP_SECRET, 2)
        /\ req[i].reads[1] \div 30 = 1
        /\ req[i].body.valid = TRUE

\* C2: with a valid API key and the signature that is right for the
\* timestamp string, the signature check passes for every age 0..30 and
\* answers 401 "expired" for every age above 30, the timestamp in the past
\* or in the future.
C2_AgeBoundary ==
    \A i \in ReqIds :
        LET r == req[i]
            ts == ParseInt(r.x_timestamp).val
            now == r.reads[1]
        IN  (/\ SignatureTimed(r)
             /\ r.api_key = settings.API_KEY
             /\ r.x_signature = hexdigest(settings.API_KEY, r.x_timestamp)) =>
                /\ (now - ts \in 0..30 \/ ts - now \in 0..30) =>
                       VerdictOf(r, "require_hmac_signature") = "pass"
                /\ (now - ts > 30 \/ ts - now > 30) =>
                       /\ r.status = 401
                       /\ r.body = Expired

\* C2 witness: a rightly signed timestamp exactly 30 s old has passed.
C2_Witness ==
    \E i \in ReqIds :
        /\ SignatureTimed(req[i])
        /\ req[i].x_signature
              = hexdigest(settings.API_KEY, req[i].x_timestamp)
        /\ req[i].reads[1] - ParseInt(req[i].x_timestamp).val = 30
        /\ VerdictOf(req[i], "require_hmac_signature") = "pass"

\* C3: require_api_key has exactly three outcomes: 401 without the header,
\* 403 for any value that differs from API_KEY, pass (returning the key) for
\* API_KEY itself.  The code violates it: a header value with a non-ASCII
\* character makes hmac.compare_digest raise TypeError, a 500.
C3_ThreeOutcomes ==
    \A i \in ReqIds :
        LET r == req[i] IN
        Ran(r, "require_api_key") =>
            /\ r.x_api_key = None => r.status = 401
            /\ (r.x_api_key # None /\ r.x_api_key # settings.API_KEY) =>
                   r.status = 403
            /\ r.x_api_key = settings.API_KEY =>
                   /\ VerdictOf(r, "require_api_key") = "pass"
                   /\ r.api_key = settings.API_KEY

\* C4: the TOTP engine runs only for an authorized request: after
\* require_api_key passed on /otp and /otp/verify, after require_api_key and
\* then require_hmac_signature passed on /otp/secure; the signature check
\* runs only after the API key check passed; /health runs no check; a step
\* that did not pass is the request's last, and its response carries no
\* passcode.
ApiPass == <<"require_api_key", "pass">>
SigPass == <<"require_hmac_signature", "pass">>

C4_AuthorizedOnly ==
    \A i \in ReqIds :
        LET r == req[i] IN
        /\ \A k \in 1..Len(r.path) :
              /\ r.path[k][1] \in {"get_otp", "verify_otp"} =>
                    IF r.route = "secure"
                    THEN k = 3 /\ r.path[1] = ApiPass /\ r.path[2] = SigPass
                    ELSE k = 2 /\ r.path[1] = ApiPass
              /\ r.path[k][1] = "require_hmac_signature" =>
                    k = 2 /\ r.path[1] = ApiPass /\ r.route = "secure"
              /\ r.path[k][2] # "pass" =>
                    /\ k = Len(r.path)
                    /\ r.pc = "responded"
                    /\ r.status \in {400, 401, 403, 500}
                    /\ r.code = None
                    /\ DOMAIN r.body \in {{"detail"}, {"error"}}
        /\ r.route = "health" =>
              \A k \in 1..Len(r.path) : r.path[k][1] = "health_check"
        /\ (r.pc = "responded" /\ r.status = 200 /\ r.route # "health") =>
              Ran(r, IF r.route = "verify" THEN "verify_otp" ELSE "get_otp")

\* C4 witness: a /otp/secure request answered with a passcode after both
\* checks passed.
C4_Witness ==
    \E i \in ReqIds :
        /\ req[i].pc = "responded"
        /\ req[i].route = "secure"
        /\ req[i].status = 200
        /\ req[i].path = <<ApiPass, SigPass, <<"get_otp", "pass">>>>

\* C5: the fields get_otp returns are consistent with each other: otp is the
\* passcode of time-step floor(timestamp/30), and valid_for_seconds is
\* 30 - (timestamp mod 30), within 1..30.  The code violates it when the
\* clock crosses a time-step boundary between totp.now() and time.time().
C5_FieldsConsistent ==
    \A i \in ReqIds :
        LET r == req[i] IN
        (r.pc = "responded" /\ r.status = 200 /\ r.route \in {"otp", "secure"})
            => /\ r.body.otp = generate_otp(settings.OTP_SECRET,
                                           r.body.timestamp \div 30)
               /\ r.body.valid_for_seconds = 30 - (r.body.timestamp % 30)
               /\ r.body.valid_for_seconds \in 1..30

\* The outcome the ordered checks of require_hmac_signature prescribe, with
\* clock reading `now`: 0 stands for pass.
OrderedOutcome(r, now) ==
    IF r.x_timestamp = None \/ r.x_signature = None THEN 401
    ELSE IF ~ParseInt(r.x_timestamp).ok THEN 400
    ELSE IF Abs(now - ParseInt(r.x_timestamp).val) > 30 THEN 401
    ELSE IF r.x_signature # hexdigest(r.api_key, r.x_timestamp) THEN 403
    ELSE 0

\* C6: with a valid API key, an integer timestamp string s within the 30 s
\* window and a signature g, the check passes iff g is the hex HMAC of the
\* raw string s, and answers 403 for every other g.  The code violates it: a
\* g with a non-ASCII character makes hmac.compare_digest raise, a 500.
C6_RawStringBinding ==
    \A i \in ReqIds :
        LET r == req[i] IN
        (/\ SignatureTimed(r)
         /\ Abs(r.reads[1] - ParseInt(r.x_timestamp).val) <= 30) =>
            /\ VerdictOf(r, "require_hmac_signature") = "pass"
                  <=> r.x_signature = hexdigest(r.api_key, r.x_timestamp)
            /\ r.x_signature # hexdigest(r.api_key, r.x_timestamp)
                  => r.status = 403

\* C7: the process serves only with a validated configuration: with API_KEY
\* or OTP_SECRET unset or empty, or OTP_SECRET not base32, the import of
\* the settings ends the process with exit status 1 and no request is ever
\* handled; while a request is handled API_KEY is non-empty and OTP_SECRET
\* is non-empty base32 text that decodes.
BadConfiguration(env) ==
    \/ env.API_KEY \in {None, <<>>}
    \/ env.OTP_SECRET \in {None, <<>>}
    \/ byte_secret_raises(env.OTP_SECRET)

C7_ServesOnlyValidated ==
    /\ (proc # "init" /\ BadConfiguration(environ)) =>
          /\ proc = "exited"
          /\ exit_code = 1
    /\ proc # "serving" => \A i \in ReqIds : req[i] = IdleReq
    /\ (proc = "serving" \/ \E i \in ReqIds : req[i].pc # "idle") =>
          /\ settings.API_KEY \notin {None, <<>>}
          /\ settings.OTP_SECRET \notin {None, <<>>}
          /\ \A k \in 1..Len(settings.OTP_SECRET) :
                \/ IsB32Char(settings.OTP_SECRET[k])
                \/ settings.OTP_SECRET[k] = 61
          /\ ~byte_secret_raises(settings.OTP_SECRET)
          /\ settings.API_KEY = environ.API_KEY
          /\ settings.OTP_SECRET = environ.OTP_SECRET

\* C7 witness: with OTP_SECRET = "ABC", which is no base32, the process has
\* exited with status 1.
C7_Witness ==
    /\ proc = "exited"
    /\ exit_code = 1
    /\ environ.API_KEY = K1
    /\ environ.OTP_SECRET = <<65, 66, 67>>
    /\ environ.PORT = None

\* A request run alone: its status and body as a function of its inputs,
\* the clock readings it made and the configuration loaded at startup.
SoloGetOtp(cfg, t_code, t_now) ==
    [status |-> 200,
     body |-> [otp |-> generate_otp(cfg.OTP_SECRET, t_code \div 30),
               valid_for_seconds |-> 30 - (t_now % 30),
               timestamp |-> t_now]]

SoloOutcome(r, cfg) ==
    LET a == require_api_key(r.x_api_key, cfg.API_KEY)
        g == require_hmac_signature(r.x_api_key, r.x_timestamp, r.x_signature,
                            r.reads[1])
    IN  IF r.route = "health"
        THEN [status |-> 200,
              body |-> [status |-> "ok", timestamp |-> r.reads[1]]]
        ELSE IF a.status # 0
        THEN [status |-> a.status, body |-> ErrorBody(a)]
        ELSE IF r.route = "otp"
        THEN SoloGetOtp(cfg, r.reads[1], r.reads[2])
        ELSE IF r.route = "verify"
        THEN [status |-> 200,
              body |-> [valid |-> verify(cfg.OTP_SECRET, r.otp,
                                             r.reads[1]),
                        timestamp |-> r.reads[2]]]
        ELSE IF g.status # 0
        THEN [status |-> g.status, body |-> ErrorBody(g)]
        ELSE SoloGetOtp(cfg, r.reads[2], r.reads[3])

\* C8: under every interleaving of the steps of the requests in flight, a
\* request's response is the one it has when run alone with the same inputs
\* and clock readings, and the configuration is the one loaded at startup.
C8_NoInterference ==
    /\ proc = "serving" => settings = SettingsOf(environ)
    /\ \A i \in ReqIds :
          req[i].pc = "responded" =>
              [status |-> req[i].status, body |-> req[i].body]
                  = SoloOutcome(req[i], SettingsOf(environ))

\* C8 witness: two requests answered while both in flight, the second's
\* verification between the two clock readings of the first's get_otp.
C8_Witness ==
    \E i, j \in ReqIds :
        /\ i # j
        /\ req[i].pc = "responded" /\ req[i].route = "otp"
        /\ req[i].status = 200
        /\ req[j].pc = "responded" /\ req[j].route = "verify"
        /\ req[j].status = 200
        /\ req[i].reads[1] < req[j].reads[1]
        /\ req[j].reads[1] < req[i].reads[2]

\* C9: require_hmac_signature reports the first failing check only, in the
\* order missing header (401), non-integer timestamp (400), age above 30 s
\* (401), wrong signature (403), else pass: five outcomes and no other.  The
\* code violates it: a non-ASCII signature on a fresh timestamp is a 500.
C9_FirstFailureOnly ==
    \A i \in ReqIds :
        LET r == req[i]
            now == IF SignatureTimed(r) THEN r.reads[1] ELSE clock
        IN  Ran(r, "require_hmac_signature") =>
                IF OrderedOutcome(r, now) = 0
                THEN VerdictOf(r, "require_hmac_signature") = "pass"
                ELSE r.status = OrderedOutcome(r, now)

\* C10: with a clock that never goes back, every presentation of the signed
\* envelope checked at ts-30 <= now <= ts+30 passes, however often it was
\* accepted before; every presentation checked outside these 61 seconds is
\* refused as expired; and once one was refused after ts+30 the clock stays
\* beyond the window.
C10_ReplayWindow ==
    LET ts == ParseInt(envelope[1]).val IN
    /\ lapsed => clock > ts + 30
    /\ \A i \in ReqIds :
          LET r == req[i] IN
          (CarriesEnvelope(r) /\ Ran(r, "require_hmac_signature")) =>
              /\ r.reads[1] \in (ts - 30)..(ts + 30) =>
                    VerdictOf(r, "require_hmac_signature") = "pass"
              /\ r.reads[1] \notin (ts - 30)..(ts + 30) =>
                    /\ r.status = 401
                    /\ r.body = Expired
              /\ Cardinality((ts - 30)..(ts + 30)) = 61

\* C10 witness: the envelope was accepted MaxReplays times, then refused as
\* expired after its window.
C10_Witness ==
    /\ replays = MaxReplays
    /\ lapsed

====
